---- MODULE Spec2Model ----
(***************************************************************************)
(* jqURL (src/main.go): the cache scan of main() and the retry loop of     *)
(* doCurl(), followed by the query stage: compiling the query, running it  *)
(* on the parsed document and writing each value to stdout or the output   *)
(* file.                                                                   *)
(*                                                                         *)
(* Time is counted in units of the configured max-age; a run is short      *)
(* against that unit, so the clock reads Now during the whole run.         *)
(* The --docker network-namespace switch (main.go:176-192) touches none of  *)
(* the state below and is left out.                                        *)
(***************************************************************************)
EXTENDS Integers, Sequences, FiniteSets, TLC

\* ------------------------------------------------------------------ bounds
MaxN == 2           \* at most this many URLs on the command line
MaxTries == 3       \* --max-tries is drawn from -1 .. MaxTries

\* ------------------------------------------------------- program constants
maxAge == 1         \* --max-age (default 4h), the unit of time of the model

Now == maxAge + 1                 \* time.Now() during the run
StaleTime == Now - maxAge - 1     \* a modification time older than max-age

\* ------------------------------------------------------------------- bytes
\* Byte strings found in cache files and in response bodies, by what
\* encoding/json makes of them when decoding into map[string]interface{}:
\*   "objA", "objB"  JSON objects with members
\*   "empty"         the JSON object {} (no members)
\*   "bad"           not JSON, or JSON whose top level is no object: an error,
\*                   and the destination is left as it was
\*   "part"          an object one of whose numbers overflows float64
\*                   ({"z":1,"n":1e999}): the other members are decoded and an
\*                   UnmarshalTypeError is returned
CacheBytes == {"objA", "empty", "bad"}
NetBodies == {"objB", "empty", "bad", "part"}
Bytes == CacheBytes \cup NetBodies

\* The members (key, value) a byte string decodes to.
Members(byt) ==
  CASE byt = "objA" -> {<<"w", "A">>, <<"x", "A">>}
    [] byt = "objB" -> {<<"x", "B">>, <<"y", "B">>}
    [] byt = "part" -> {<<"z", "P">>}
    [] OTHER -> {}

UnmarshalErr(byt) == byt \in {"bad", "part"}

\* json.Unmarshal(byt, &dat): decodes into the existing map, so members of the
\* old map whose key is not in byt stay.
Unmarshal(byt, d) ==
  [err |-> UnmarshalErr(byt),
   dat |-> {p \in d : \A q \in Members(byt) : q[1] # p[1]} \cup Members(byt)]

\* ------------------------------------------------------------------- files
\* fmt.Sprintf("%s/jqurl_%x", cacheDir, sha1(Arg ++ uid)): one path per URL
\* string (the user id and the cache directory are fixed during a run).
CacheFileOf(Arg) == <<"jqurl", Arg>>
NoPath == <<>>      \* the empty string: cacheFiles[i] before it is assigned
Paths == {CacheFileOf(a) : a \in 1..MaxN}
NoFile == [exists |-> FALSE, bytes |-> "", mtime |-> 0]
\* The cache files a run may find: written just now with any content, or
\* left by a run that is older than max-age.
Files == [exists : {TRUE}, bytes : CacheBytes, mtime : {Now}]
           \cup {[exists |-> TRUE, bytes |-> "objA", mtime |-> StaleTime]}

VARIABLES
  Args,        \* the URLs of the command line (URL k is the number k)
  maxTries, useCache, flush, debug, method, postData,   \* flags
  fs,          \* the cache directory: path -> file
  fs0,         \* history: the cache directory when the process started
  cacheFiles,  \* cacheFiles[i]
  dat,         \* the parsed document (set of members; {} is len(dat) == 0)
  si,          \* index i of the scan loop of main (1-based)
  j,           \* counter j of the retry loop of doCurl
  pc,          \* "scan", "loop", "query", "done", "fatal"
  abort,       \* why the process aborted ("" while it has not)
  hit,         \* history: index of the target whose cache file was used, 0 if none
  tries,       \* history: one record per iteration of the retry loop
  writes,      \* history: the calls of ioutil.WriteFile
  openFiles,   \* POST-body files opened and not yet closed
  queried,     \* history: the documents handed to the query engine, in order
  JQString,    \* the query (first positional argument), by what it does
  outputFile,  \* --output ("" is stdout)
  stdout,      \* the lines written to stdout
  outfile,     \* the lines in the output file
  outHandles,  \* output files opened and not yet closed
  results      \* history: what the query's iterator has yielded

vars == <<Args, maxTries, useCache, flush, debug, method, postData, fs, fs0,
          cacheFiles, dat, si, j, pc, abort, hit, tries, writes, openFiles,
          queried, JQString, outputFile, stdout, outfile, outHandles, results>>

config == <<Args, maxTries, useCache, flush, debug, method, postData, fs0,
            JQString, outputFile>>

\* What the query stage of doCurl writes.
out == <<stdout, outfile, outHandles, results>>

N == Len(Args)

\* (method, postData) pairs: a GET, a POST whose body is read from a file, and
\* a method http.NewRequestWithContext rejects.
ReqKinds == {<<"GET", "">>, <<"POST", "@f">>, <<"B D", "">>}

\* The queries, by what gojq makes of them: one that does not compile, and
\* ones that yield no value, one value, two values, an error, a value and then
\* an error.
Queries == {"syntax-error", "no-value", "one-value", "two-values", "error",
            "value-error"}

\* The runs explored: every fetch configuration with a two-value query printed
\* to stdout, and every query and output with a single URL, an empty cache
\* directory and at most two tries.
PlainQuery == JQString = "two-values" /\ outputFile = ""

SmallFetch ==
  /\ Len(Args) = 1
  /\ maxTries \in 0..2
  /\ ~flush
  /\ method # "B D"
  /\ \A p \in Paths : fs[p] = NoFile

Init ==
  /\ \E n \in 1..MaxN : Args = [k \in 1..n |-> k]
  /\ maxTries \in (-1)..MaxTries
  /\ useCache \in BOOLEAN
  /\ flush \in BOOLEAN
  /\ debug \in BOOLEAN
  /\ \E rk \in ReqKinds : method = rk[1] /\ postData = rk[2]
  /\ fs \in [Paths -> Files \cup {NoFile}]
  /\ \A a \in 1..MaxN : a > Len(Args) => fs[CacheFileOf(a)] = NoFile
  /\ fs0 = fs
  /\ cacheFiles = [k \in 1..Len(Args) |-> NoPath]
  /\ dat = {}
  /\ si = 1
  /\ j = 0
  /\ pc = "scan"
  /\ abort = ""
  /\ hit = 0
  /\ tries = <<>>
  /\ writes = <<>>
  /\ openFiles = 0
  /\ queried = <<>>
  /\ JQString \in Queries
  /\ outputFile \in {"", "out"}
  /\ PlainQuery \/ SmallFetch
  /\ stdout = <<>>
  /\ outfile = <<"old">>
  /\ outHandles = 0
  /\ results = <<>>

\* ---------------------------------------------------- main: the cache scan
\* Mutant of UseCacheFile: the lookup forgets --flush.
UseCacheFile_IgnoresFlush(file) ==
  /\ file.exists
  /\ useCache
  /\ Now + maxAge > file.mtime

\* main.go:157-158: err == nil && !flush && useCache &&
\*                  time.Now().Add(maxAge).After(stat.ModTime())
UseCacheFile(file) ==
  /\ file.exists
  /\ ~flush
  /\ useCache
  /\ Now + maxAge > file.mtime

\* Mutant of ScanNext: only the first target's cache file is looked at.
ScanNext_OnlyFirst ==
  /\ si' = si + 1
  /\ pc' = "loop"

\* One iteration of `for i, Arg := range Args` whose cache file is not used:
\* cacheFiles[i] is assigned and the scan moves on.
ScanNext ==
  /\ si' = si + 1
  /\ pc' = IF si = N THEN "loop" ELSE "scan"

ScanMiss ==
  /\ pc = "scan"
  /\ ~UseCacheFile(fs[CacheFileOf(Args[si])])
  /\ cacheFiles' = [cacheFiles EXCEPT ![si] = CacheFileOf(Args[si])]
  /\ ScanNext
  /\ UNCHANGED <<config, fs, dat, j, abort, hit, tries, writes, openFiles, queried, out>>

\* ioutil.ReadFile fails on a file os.Stat found (no read permission).
ScanReadFail ==
  /\ pc = "scan"
  /\ UseCacheFile(fs[CacheFileOf(Args[si])])
  /\ cacheFiles' = [cacheFiles EXCEPT ![si] = CacheFileOf(Args[si])]
  /\ ScanNext
  /\ UNCHANGED <<config, fs, dat, j, abort, hit, tries, writes, openFiles, queried, out>>

\* The file is read: json.Unmarshal(byt, &dat), error ignored, break.
ScanHit ==
  /\ pc = "scan"
  /\ UseCacheFile(fs[CacheFileOf(Args[si])])
  /\ cacheFiles' = [cacheFiles EXCEPT ![si] = CacheFileOf(Args[si])]
  /\ dat' = Unmarshal(fs[CacheFileOf(Args[si])].bytes, dat).dat
  /\ hit' = si
  /\ pc' = "loop"
  /\ UNCHANGED <<config, fs, si, j, abort, tries, writes, openFiles, queried, out>>

\* ------------------------------------------------- doCurl: the retry loop
\* Mutants of LoopCond: the loop goes on with a document in hand; the loop
\* does not count its tries.
LoopCond_IgnoresDat == j < maxTries

LoopCond_Unbounded == dat = {}

\* main.go:215: j < maxTries && len(dat) == 0
LoopCond == j < maxTries /\ dat = {}

\* Mutant of Target: the round-robin starts one target too far.
Target_Shifted(jj) == (jj + 1) % N

\* main.go:216: i := j % len(Args)   (0-based)
Target(jj) == jj % N

\* Mutant of Pace: a delay after every failed attempt.
Pace_Always(i) == TRUE

\* main.go:294: i%len(Args) == len(Args)-1
Pace(i) == i % N = N - 1

\* The POST body is read from a file (main.go:225-226).
PostFromFile == method = "POST" /\ postData # "" /\ postData = "@f"

\* defer f.Close() inside the loop: the file stays open until doCurl returns.
Opened == IF PostFromFile THEN openFiles + 1 ELSE openFiles

\* history record of one iteration: the target index i, whether the request
\* was sent, how the iteration ended, the body received ("" if none) and
\* whether time.Sleep(delay) was called.
Try(i, sent, result, body, slept) ==
  [i |-> i, sent |-> sent, result |-> result, body |-> body, slept |-> slept]

\* Mutant of LoopExit: running out of tries with no document is fatal.
LoopExit_FatalWhenEmpty ==
  /\ pc = "loop"
  /\ ~LoopCond
  /\ pc' = IF dat = {} THEN "fatal" ELSE "query"
  /\ abort' = IF dat = {} THEN "exhausted" ELSE abort
  /\ UNCHANGED <<config, fs, cacheFiles, dat, si, j, hit, tries, writes,
                 openFiles, queried, out>>

LoopExit ==
  /\ pc = "loop"
  /\ ~LoopCond
  /\ pc' = "query"
  /\ UNCHANGED <<config, fs, cacheFiles, dat, si, j, abort, hit, tries, writes,
                 openFiles, queried, out>>

Fatal(why) ==
  /\ pc' = "fatal"
  /\ abort' = why

\* os.Open(postData[1:]) fails: log.Fatalf (main.go:227-230).
AttemptOpenFail ==
  /\ pc = "loop"
  /\ LoopCond
  /\ PostFromFile
  /\ tries' = Append(tries, Try(Target(j), FALSE, "open", "", FALSE))
  /\ Fatal("postdata")
  /\ UNCHANGED <<config, fs, cacheFiles, dat, si, j, hit, writes, openFiles, queried, out>>

\* http.NewRequestWithContext rejects the method: log.Fatalf (main.go:241-244).
AttemptNewRequestFail ==
  /\ pc = "loop"
  /\ LoopCond
  /\ method = "B D"
  /\ tries' = Append(tries, Try(Target(j), FALSE, "newrequest", "", FALSE))
  /\ openFiles' = Opened
  /\ Fatal("newrequest")
  /\ UNCHANGED <<config, fs, cacheFiles, dat, si, j, hit, writes, queried, out>>

\* The end of an iteration that did not break: the pacing check and j++.
Failed(result, body) ==
  /\ tries' = Append(tries, Try(Target(j), TRUE, result, body, Pace(Target(j))))
  /\ j' = j + 1
  /\ openFiles' = Opened
  /\ UNCHANGED <<pc, abort>>

\* client.Do(req) returns an error (main.go:254-259), or ioutil.ReadAll does
\* (main.go:270-273).
AttemptTransportErr ==
  /\ pc = "loop"
  /\ LoopCond
  /\ method # "B D"
  /\ Failed("transport", "")
  /\ UNCHANGED <<config, fs, cacheFiles, dat, si, hit, writes, queried, out>>

AttemptReadErr ==
  /\ pc = "loop"
  /\ LoopCond
  /\ method # "B D"
  /\ Failed("read", "")
  /\ UNCHANGED <<config, fs, cacheFiles, dat, si, hit, writes, queried, out>>

\* Mutants of FatalOnUnmarshalErr and FatalOnWriteErr: the debug test is lost.
FatalOnUnmarshalErr_Always == TRUE

FatalOnWriteErr_Never == FALSE

\* main.go:275: err != nil && debug
FatalOnUnmarshalErr == debug

\* main.go:286: err != nil && debug
FatalOnWriteErr == debug

\* json.Unmarshal(byt, &dat) returns an error (main.go:274-277): fatal in debug
\* mode, a failed attempt otherwise.
AttemptUnmarshalErr ==
  /\ pc = "loop"
  /\ LoopCond
  /\ method # "B D"
  /\ \E byt \in NetBodies :
       /\ Unmarshal(byt, dat).err
       /\ dat' = Unmarshal(byt, dat).dat
       /\ IF FatalOnUnmarshalErr
            THEN /\ tries' = Append(tries, Try(Target(j), TRUE, "unmarshal", byt, FALSE))
                 /\ openFiles' = Opened
                 /\ Fatal("unmarshal")
                 /\ UNCHANGED j
            ELSE Failed("unmarshal", byt)
  /\ UNCHANGED <<config, fs, cacheFiles, si, hit, writes, queried, out>>

\* Mutant of StoreWanted: the cache file is written without --cache.
StoreWanted_Always == TRUE

\* main.go:279: the cache file is written only with --cache.
StoreWanted == useCache

\* Mutant of WriteFile: every cache file is overwritten.
WriteFile_Everywhere(path, byt) ==
  [p \in Paths |-> [exists |-> TRUE, bytes |-> byt, mtime |-> Now]]

\* ioutil.WriteFile(path, byt, 0666): creates or overwrites the file, stamped
\* with the current time.  Writing to the empty path always fails.
WriteFile(path, byt) ==
  IF path \in Paths
    THEN [fs EXCEPT ![path] = [exists |-> TRUE, bytes |-> byt, mtime |-> Now]]
    ELSE fs

Write(path, byt, ok) == [path |-> path, bytes |-> byt, ok |-> ok]

\* The body parses (main.go:278-290): break, after writing the cache file when
\* caching is on; a failed write is fatal in debug mode only.
AttemptOk ==
  /\ pc = "loop"
  /\ LoopCond
  /\ method # "B D"
  /\ \E byt \in NetBodies :
       /\ ~Unmarshal(byt, dat).err
       /\ dat' = Unmarshal(byt, dat).dat
       /\ tries' = Append(tries, Try(Target(j), TRUE, "ok", byt, FALSE))
       /\ openFiles' = Opened
       /\ IF ~StoreWanted
            THEN /\ pc' = "query"
                 /\ UNCHANGED <<fs, writes, abort>>
            ELSE \E ok \in BOOLEAN :
                   /\ ok => cacheFiles[Target(j) + 1] \in Paths
                   /\ fs' = IF ok THEN WriteFile(cacheFiles[Target(j) + 1], byt) ELSE fs
                   /\ writes' = Append(writes, Write(cacheFiles[Target(j) + 1], byt, ok))
                   /\ IF ~ok /\ FatalOnWriteErr
                        THEN Fatal("writefile")
                        ELSE pc' = "query" /\ UNCHANGED abort
  /\ UNCHANGED <<config, cacheFiles, si, j, hit, queried, out>>

\* ------------------------------------------------- doCurl: the query engine
\* gojq.Parse(JQString) returns no error.
SyntaxOk(q) == q # "syntax-error"

\* What iter.Next() yields for the query, call after call, until it is
\* exhausted: values, and possibly an error, which ends the run.
RunOf(q) ==
  CASE q = "one-value" -> <<"v1">>
    [] q = "two-values" -> <<"v1", "v2">>
    [] q = "error" -> <<"err">>
    [] q = "value-error" -> <<"v1", "err">>
    [] OTHER -> <<>>

IsValue(r) == r # "err"
ValuesOf(run) == SelectSeq(run, IsValue)

\* The line printed for a value: fmt.Fprintf(output, "%s\n", json.Marshal(v))
\* (main.go:326-336).
Render(v) == <<"line", v>>

\* os.Create(outputFile) (main.go:318): the file is created or truncated.
Create(content) == <<>>

\* The body of the for loop (main.go:316-336) with --output, value after value:
\* the file is created again for each value and the value's line written.
RECURSIVE EmitAll(_, _)
EmitAll(vs, content) ==
  IF vs = <<>>
    THEN content
    ELSE EmitAll(Tail(vs), Append(Create(content), Render(Head(vs))))

\* The values vs have gone through the loop body.
Emitted(vs) ==
  /\ stdout' = IF outputFile = ""
                 THEN stdout \o [k \in 1..Len(vs) |-> Render(vs[k])]
                 ELSE stdout
  /\ outfile' = IF outputFile # "" THEN EmitAll(vs, outfile) ELSE outfile

\* gojq.Parse(JQString) fails: log.Fatalf (main.go:299-302).
QueryBadSyntax ==
  /\ pc = "query"
  /\ ~SyntaxOk(JQString)
  /\ Fatal("query syntax")
  /\ UNCHANGED <<config, fs, cacheFiles, dat, si, j, hit, tries, writes,
                 openFiles, queried, out>>

\* query.Run(dat) yields an error value after some values: log.Fatalf
\* (main.go:309-311); the deferred Close calls do not run.
QueryError ==
  /\ pc = "query"
  /\ SyntaxOk(JQString)
  /\ queried' = Append(queried, dat)
  /\ ValuesOf(RunOf(JQString)) # RunOf(JQString)
  /\ results' = RunOf(JQString)
  /\ Emitted(ValuesOf(RunOf(JQString)))
  /\ outHandles' = IF outputFile # "" THEN Len(ValuesOf(RunOf(JQString))) ELSE 0
  /\ Fatal("query error")
  /\ UNCHANGED <<config, fs, cacheFiles, dat, si, j, hit, tries, writes, openFiles>>

\* os.Create(outputFile) fails for the p-th value: log.Fatalf (main.go:318-321).
QueryOutputFail ==
  /\ pc = "query"
  /\ outputFile # ""
  /\ SyntaxOk(JQString)
  /\ queried' = Append(queried, dat)
  /\ \E p \in 1..Len(ValuesOf(RunOf(JQString))) :
       /\ results' = SubSeq(RunOf(JQString), 1, p)
       /\ Emitted(SubSeq(RunOf(JQString), 1, p - 1))
       /\ outHandles' = p - 1
  /\ Fatal("output")
  /\ UNCHANGED <<config, fs, cacheFiles, dat, si, j, hit, tries, writes, openFiles>>

\* query.Run(dat) yields its values and is exhausted; doCurl returns and the
\* deferred Close calls run.
QueryDone ==
  /\ pc = "query"
  /\ SyntaxOk(JQString)
  /\ queried' = Append(queried, dat)
  /\ ValuesOf(RunOf(JQString)) = RunOf(JQString)
  /\ results' = RunOf(JQString)
  /\ Emitted(RunOf(JQString))
  /\ openFiles' = 0
  /\ outHandles' = 0
  /\ pc' = "done"
  /\ UNCHANGED <<config, fs, cacheFiles, dat, si, j, abort, hit, tries, writes>>

Next ==
  \/ ScanMiss
  \/ ScanReadFail
  \/ ScanHit
  \/ LoopExit
  \/ AttemptOpenFail
  \/ AttemptNewRequestFail
  \/ AttemptTransportErr
  \/ AttemptReadErr
  \/ AttemptUnmarshalErr
  \/ AttemptOk
  \/ QueryBadSyntax
  \/ QueryError
  \/ QueryOutputFail
  \/ QueryDone

Spec == Init /\ [][Next]_vars

\* The process runs until it exits: every enabled step is eventually taken.
FairSpec == Spec /\ WF_vars(Next)

\* ================================================================== claims
\* The spec's freshness: the entry exists and now <= entryTimestamp + maxAge.
Fresh(file) == file.exists /\ Now <= file.mtime + maxAge

Tries == 1..Len(tries)
Sent == {k \in Tries : tries[k].sent}
Slept == {k \in Tries : tries[k].slept}
LastOk == tries # <<>> /\ tries[Len(tries)].result = "ok"
Running == pc \in {"scan", "loop", "query"}
FailResults == {"transport", "read", "unmarshal"}

\* The iteration k ended in a failure and the process went on (it reached the
\* pacing check of main.go:294).
FailedTry(k) ==
  /\ tries[k].result \in FailResults
  /\ ~(k = Len(tries) /\ pc = "fatal" /\ abort = "unmarshal")

\* C1 (as claimed): with caching on, force-refresh off and a fresh cache entry
\* for target 0 that the scan has read, whatever its bytes, no network request
\* is issued and the document handed to the query engine is the one parsed from
\* the cached bytes.
C1_CacheHitShortCircuit ==
  (useCache /\ ~flush /\ Fresh(fs0[CacheFileOf(Args[1])]) /\ hit = 1)
    => /\ Sent = {}
       /\ queried # <<>> => queried[1] = Members(fs0[CacheFileOf(Args[1])].bytes)

\* C2 (as claimed): a cache entry is used as the document only if it exists and
\* now <= entryTimestamp + maxAge.
C2_CacheFreshness ==
  hit # 0 => Fresh(fs0[CacheFileOf(Args[hit])])

\* C3: the k-th iteration of the retry loop (k counted from 0) issues its
\* request to targets[k mod N]; iterations are numbered consecutively from 0,
\* each but possibly the last (aborted before the request) issuing one request.
C3_RoundRobin ==
  /\ \A k \in Tries : tries[k].sent => tries[k].i = (k - 1) % N
  /\ \A k \in Tries : k < Len(tries) => tries[k].sent
  /\ j \in {Len(tries) - 1, Len(tries)}

C3_Witness ==
  /\ N = 2
  /\ Len(tries) = 3
  /\ tries[3].sent
  /\ tries[3].i = 0
  /\ tries[2].i = 1

\* C4: a delay follows attempt k exactly when attempt k failed (the loop went
\* on) and k mod N = N-1; no delay follows a successful attempt.  Hence when
\* all M attempts fail there are M div N delays, and with N = 1, a failed first
\* and a successful second attempt there are 2 attempts and 1 delay.
C4_RetryPacing ==
  /\ \A k \in Tries : tries[k].slept <=> (FailedTry(k) /\ (k - 1) % N = N - 1)
  /\ \A k \in Tries : tries[k].result = "ok" => ~tries[k].slept
  /\ (/\ ~Running
      /\ Len(tries) = maxTries
      /\ \A k \in Tries : FailedTry(k))
       => Cardinality(Slept) = maxTries \div N
  /\ (/\ N = 1
      /\ LastOk
      /\ Len(tries) >= 2
      /\ tries[1].result \in FailResults)
       => (Len(tries) = 2 => Cardinality(Slept) = 1)

C4_Witness ==
  /\ N = 2
  /\ pc = "done"
  /\ maxTries = 3
  /\ Len(tries) = 3
  /\ \A k \in Tries : FailedTry(k)
  /\ Slept = {2}

\* C5: once the parsed document is non-empty no step changes it, issues a
\* request or looks up the cache again; after a cache file has been used the
\* scan looks at no other; after an attempt whose body parsed (even to an empty
\* document) no later attempt is made.
C5_NoFetchAfterResult ==
  [][/\ dat # {} => (dat' = dat /\ tries' = tries /\ hit' = hit /\ si' = si)
     /\ hit # 0 => (hit' = hit /\ si' = si)
     /\ LastOk => (tries' = tries /\ dat' = dat)]_vars

C5_Witness ==
  /\ pc = "done"
  /\ LastOk
  /\ dat = {}
  /\ Len(tries) < maxTries

\* C6: the retry loop issues at most max(M, 0) requests, leaves the loop only
\* with a result (SUCCESS) or with the tries used up (EXHAUSTED), aborts only
\* for the documented reasons, is never stuck, and every step brings the end
\* nearer (Rank decreases), so no run is infinite.
Max0(m) == IF m > 0 THEN m ELSE 0

Rank ==
  CASE pc = "scan" -> Max0(maxTries) + 3 + (N + 1 - si)
    [] pc = "loop" -> Max0(maxTries - j) + 2
    [] pc = "query" -> 1
    [] OTHER -> 0

Aborts == {"postdata", "newrequest", "unmarshal", "writefile", "query syntax",
           "query error", "output"}

C6_BoundedTermination ==
  /\ [](/\ Cardinality(Sent) <= Max0(maxTries)
        /\ Len(tries) <= Max0(maxTries)
        /\ pc \in {"query", "done"} => (dat # {} \/ LastOk \/ j >= maxTries)
        /\ pc = "fatal" => abort \in Aborts
        /\ Running => ENABLED Next)
  /\ [][Rank' < Rank /\ Rank' >= 0]_vars

C6_Witness ==
  /\ pc = "done"
  /\ maxTries >= 2
  /\ Cardinality(Sent) = maxTries
  /\ dat = {}
  /\ ~LastOk

\* C7: with force-refresh and caching on, no cache file is used as the
\* document; when maxTries >= 1 a request is issued as soon as the first
\* request can be built; and a successful fetch writes the response bytes to
\* the cache file of the target fetched, replacing what was there.
C7_ForceRefresh ==
  (flush /\ useCache) =>
    /\ hit = 0
    /\ (maxTries >= 1 /\ pc \in {"query", "done", "fatal"}
          /\ abort \notin {"postdata", "newrequest"}) => Sent # {}
    /\ LastOk =>
         /\ Len(writes) = 1
         /\ writes[1].path = CacheFileOf(Args[tries[Len(tries)].i + 1])
         /\ writes[1].bytes = tries[Len(tries)].body
         /\ writes[1].ok =>
              fs[writes[1].path] =
                [exists |-> TRUE, bytes |-> writes[1].bytes, mtime |-> Now]

C7_Witness ==
  /\ flush
  /\ useCache
  /\ pc = "done"
  /\ Fresh(fs0[CacheFileOf(Args[1])])
  /\ Len(tries) = 1
  /\ LastOk
  /\ writes[1].ok
  /\ fs[CacheFileOf(Args[1])] # fs0[CacheFileOf(Args[1])]

\* C8: with caching off (whatever force-refresh says and whatever the cache
\* directory holds) no cache file is used as the document and no cache file is
\* created or overwritten.
C8_CachingDisabled ==
  ~useCache => (hit = 0 /\ fs = fs0 /\ writes = <<>>)

C8_Witness ==
  /\ ~useCache
  /\ pc = "done"
  /\ LastOk
  /\ dat # {}
  /\ Fresh(fs0[CacheFileOf(Args[1])])

\* C9: an iteration that ends in a transport error, a body-read error or a
\* malformed-JSON body leaves the parsed document as it was; with debug off it
\* never aborts and the loop goes on to the next attempt when one is left;
\* with debug on the transport and read errors still do not abort and the
\* malformed body does.
Transient(t) ==
  \/ t.result \in {"transport", "read"}
  \/ t.result = "unmarshal" /\ t.body = "bad"

C9_TransientErrors ==
  [][(tries' # tries /\ Transient(tries'[Len(tries')])) =>
       /\ dat' = dat
       /\ (~debug \/ tries'[Len(tries')].result # "unmarshal") =>
            /\ pc' = "loop"
            /\ abort' = ""
            /\ j' = j + 1
            /\ j' < maxTries => (ENABLED AttemptTransportErr)'
       /\ (debug /\ tries'[Len(tries')].result = "unmarshal") =>
            (pc' = "fatal" /\ abort' = "unmarshal")]_vars

C9_Witness ==
  /\ ~debug
  /\ Len(tries) = 3
  /\ tries[1].result = "transport"
  /\ tries[2].result = "unmarshal"
  /\ tries[2].body = "bad"
  /\ tries[3].result = "read"
  /\ pc = "done"

\* C10: when the body parsed, caching is on and the cache write fails, then
\* with debug off the process does not abort, keeps the parsed document and
\* leaves the loop as after a successful write; with debug on it aborts before
\* the query is run.
WriteFailed == writes # <<>> /\ ~writes[Len(writes)].ok

C10_StoreFailure ==
  WriteFailed =>
    /\ LastOk
    /\ dat = Members(tries[Len(tries)].body)
    /\ ~debug => (pc \in {"query", "done", "fatal"} /\ abort \in {"", "query syntax", "query error", "output"})
    /\ debug => (pc = "fatal" /\ abort = "writefile" /\ queried = <<>>)

C10_Witness ==
  /\ WriteFailed
  /\ ~debug
  /\ pc = "done"
  /\ dat # {}
  /\ queried = <<dat>>

\* C11: when all maxTries attempts have failed and the document is still empty
\* (debug off), leaving the loop does not abort the process: the query engine
\* is run once, on the empty document, and the process exits with code 0
\* unless the query fails (it does not compile, yields an error, or its output
\* file cannot be created).
AllTriesFailed ==
  /\ ~debug
  /\ pc \notin {"scan", "loop"}
  /\ dat = {}
  /\ Len(tries) = Max0(maxTries)
  /\ \A k \in Tries : tries[k].result \in FailResults

QueryAborts == {"query syntax", "query error", "output"}

C11_ExhaustionNoError ==
  AllTriesFailed =>
    /\ abort \in {""} \cup QueryAborts
    /\ pc = "fatal" => abort \in QueryAborts
    /\ Len(queried) <= 1
    /\ (pc = "done" \/ abort \in {"query error", "output"}) => queried = <<{}>>
    /\ abort = "query syntax" => ~SyntaxOk(JQString)
    /\ abort = "query error" => ValuesOf(RunOf(JQString)) # RunOf(JQString)
    /\ abort = "output" => outputFile # ""

C11_Witness ==
  /\ AllTriesFailed
  /\ maxTries = 2
  /\ pc = "done"
  /\ queried = <<{}>>
  /\ results # <<>>

\* C12 (as claimed): a fatal configuration error aborts the process before any
\* network request, delay or cache write: a query that does not compile and an
\* output file that cannot be created abort with nothing fetched, and a
\* POST-data file that cannot be opened aborts the attempt that needs it
\* before its request.
C12_FatalConfigBeforeFetch ==
  /\ abort \in {"query syntax", "output"} =>
       (Sent = {} /\ Slept = {} /\ writes = <<>>)
  /\ abort = "postdata" => ~tries[Len(tries)].sent

\* C13 (as claimed): after normal completion with k >= 1 values and no error,
\* the configured output holds the lines of all k values in the order they
\* were yielded.
Output == IF outputFile = "" THEN stdout ELSE outfile

C13_OutputComplete ==
  (pc = "done" /\ Len(results) >= 1) =>
    Output = [k \in 1..Len(results) |-> Render(results[k])]

\* C14 (as claimed): at most one POST-body file is open at any time during the
\* retry loop, and no POST-body or output file is still open when the process
\* has exited, normally or by a fatal abort.
C14_ScopedRelease ==
  /\ pc = "loop" => openFiles <= 1
  /\ pc \in {"done", "fatal"} => (openFiles = 0 /\ outHandles = 0)

\* C15 (as claimed): the cache entry of target i is consulted in attempt i,
\* after the attempts before it have issued their requests; with N = 2, no
\* fresh entry for target 0 and a fresh one for target 1, the entry of target 1
\* is used only after a request to target 0.
C15_PerAttemptLookup ==
  (/\ N = 2
   /\ ~Fresh(fs0[CacheFileOf(Args[1])])
   /\ Fresh(fs0[CacheFileOf(Args[2])])
   /\ hit = 2)
    => (tries # <<>> /\ tries[1].sent /\ tries[1].i = 0)

\* C15 (amended): the cache is consulted once, before the retry loop, target
\* after target in list order up to the first entry that the lookup accepts
\* and that can be read; no lookup happens once the loop has started.  A
\* request is issued only when no entry was used or the used entry left the
\* document empty: with an entry for target 1 that gives a non-empty document
\* and none for target 0, no request is issued at all.
Looked == {k \in 1..N : cacheFiles[k] # NoPath}

C15_UpFrontLookup ==
  /\ pc = "scan" => (tries = <<>> /\ hit = 0 /\ Looked = 1..(si - 1))
  /\ (pc # "scan" /\ hit = 0) => Looked = 1..N
  /\ hit # 0 =>
       /\ Looked = 1..hit
       /\ UseCacheFile(fs0[CacheFileOf(Args[hit])])
       /\ Sent # {} => Members(fs0[CacheFileOf(Args[hit])].bytes) = {}
  /\ Sent # {} => \A k \in Looked : cacheFiles[k] = CacheFileOf(Args[k])

C15_Witness ==
  /\ N = 2
  /\ ~fs0[CacheFileOf(Args[1])].exists
  /\ Fresh(fs0[CacheFileOf(Args[2])])
  /\ hit = 2
  /\ maxTries >= 1
  /\ pc = "done"
  /\ tries = <<>>
  /\ queried = <<Members("objA")>>

\* C16 (as claimed): whenever a response from target i parses with caching on,
\* the store is made under the cache key of target i with exactly the response
\* bytes, also after a scan that stopped at an earlier target whose cached
\* bytes gave an empty document.
C16_StoreKey ==
  \A k \in 1..Len(writes) :
    /\ LastOk
    /\ writes[k].path = CacheFileOf(Args[tries[Len(tries)].i + 1])
    /\ writes[k].bytes = tries[Len(tries)].body

\* C17: the cache directory changes only in the step that stores a parsed
\* network response with caching on, and only in the entry of the target just
\* fetched, which then holds the response bytes stamped now; every other step
\* (cache hit, failed attempt, end of the loop, query) leaves every entry's
\* bytes and time as they were, and no entry is ever removed.
C17_CacheFrame ==
  [][fs' # fs =>
       /\ useCache
       /\ pc = "loop"
       /\ tries' # tries
       /\ tries'[Len(tries')].result = "ok"
       /\ \A p \in Paths :
            IF p = CacheFileOf(Args[tries'[Len(tries')].i + 1])
              THEN fs'[p] = [exists |-> TRUE,
                             bytes |-> tries'[Len(tries')].body,
                             mtime |-> Now]
              ELSE fs'[p] = fs[p]]_vars

C17_Witness ==
  /\ N = 2
  /\ pc = "done"
  /\ fs[CacheFileOf(Args[1])] # fs0[CacheFileOf(Args[1])]
  /\ fs0[CacheFileOf(Args[2])].exists
  /\ fs[CacheFileOf(Args[2])] = fs0[CacheFileOf(Args[2])]

\* C18 (as claimed): the document handed to the query engine is empty or is
\* exactly the document of one source that parsed (the cache file used, or one
\* response); it is never a merge and never what a failed parse left behind.
CacheDoc ==
  IF hit # 0 /\ ~UnmarshalErr(fs0[CacheFileOf(Args[hit])].bytes)
    THEN {Members(fs0[CacheFileOf(Args[hit])].bytes)}
    ELSE {}

NetDocs == {Members(tries[k].body) : k \in {n \in Tries : tries[n].result = "ok"}}

C18_SingleSource ==
  \A k \in 1..Len(queried) : queried[k] \in {{}} \cup CacheDoc \cup NetDocs

====
